---- MODULE Spec2Model ----
(***************************************************************************)
(* Fixed-depth game-tree search (search/src/search.rs) and the bitboard    *)
(* position (src/position.rs) of the chess engine.                         *)
(*                                                                         *)
(* Search::negamax and Search::alpha_beta are modelled as a step machine   *)
(* with an explicit stack of activation records of negamax_recursive /     *)
(* alpha_beta_recursive.  The collaborators the search calls (move         *)
(* generator, position history, evaluator, Score) are not part of the      *)
(* sources at hand; they are modelled by their contracts over a small      *)
(* family of finite games.                                                 *)
(***************************************************************************)
EXTENDS Integers, Sequences, FiniteSets, TLC

\* ------------------------------------------------------------------ bounds
\* Largest depth argument handed to a search.
MaxDepth == 3
\* Largest number of moves the move generator returns for one position.
MaxMoves == 2

\* ------------------------------------------------------------------- Score
\* eval::Score is a two's complement integer; MIN = -MAX - 1.
ScoreMAX == 32767
ScoreMIN == -ScoreMAX - 1

\* Overflow of the unary minus: only -Score::MIN does not fit.
NegOverflows(x) == x = ScoreMIN
\* The value of -x where it fits, and the wrapped value where it does not.
Neg(x) == IF NegOverflows(x) THEN ScoreMIN ELSE 0 - x
\* What the builds can do with -x: a build with overflow checks panics on
\* -Score::MIN, one without them wraps.
NegOutcomes(x) == IF NegOverflows(x) THEN {"panic", "wrap"} ELSE {"value"}

\* ------------------------------------------------------------ collaborators
White == "White"
Black == "Black"
Sides == {White, Black}
Other(side) == IF side = White THEN Black ELSE White

\* The boards of the game family and the values the evaluator takes on them.
Boards == 0..2
EvalValues == {ScoreMIN + 1, 0 - 2, 1, 2, ScoreMAX}

\* Move: a move names the board it is played from and its place among that
\* board's moves, so the moves of different boards differ; Move::NULL is none
\* of them.
NULL == 0
Moves == 1..(Cardinality(Boards) * MaxMoves)
MoveOf(board, k) == board * MaxMoves + k
MovePlace(m) == ((m - 1) % MaxMoves) + 1

VARIABLES
    eval_table,           \* the game: white-relative evaluation of each board
    legal_count,          \* the game: the number of legal moves of each board
    root,                 \* the position the caller searches
    depth0,               \* the depth the caller asks for
    mirrored,             \* the history at hand starts at the mirrored root
    pos_history,          \* PositionHistory: the stack of positions
    pc,                   \* "idle", the public function running, or "panicked"
    move_list_stack,      \* the scratch move lists
    principal_variation,  \* the triangular PV buffer
    frames,               \* activation records of the recursive function
    ret,                  \* <<v>>: the value the last finished call returned
    results,              \* what each public call returned
    ops,                  \* collaborator calls and PV writes of the last step
    written,              \* PV slots written since the public call started
    layout,               \* Bitboard's square numbering
    position,             \* <<p>>: the Position constructed
    square,               \* <<s>>: the square index last asked for
    piece                 \* <<x>>: what piece_at returned for it

search_vars == <<eval_table, legal_count, root, depth0, mirrored, pos_history, pc,
                 move_list_stack, principal_variation, frames, ret, results,
                 ops, written>>
position_vars == <<layout, position, square, piece>>
vars == <<search_vars, position_vars>>

\* Position as the search sees it: the side to move, the board, and whether
\* the colours are swapped with respect to the game's tables.
Positions == [side_to_move : Sides, board : Boards, swapped : BOOLEAN]

side_to_move(pos) == pos.side_to_move

\* Eval::eval: the evaluation from white's point of view.
eval(pos) == IF pos.swapped THEN 0 - eval_table[pos.board] ELSE eval_table[pos.board]

\* Eval::eval_relative: the same evaluation from the mover's point of view.
eval_relative(pos) == IF pos.side_to_move = White THEN eval(pos) ELSE 0 - eval(pos)

\* MoveGenerator::generate_moves: the legal moves, in the generator's order.
generate_moves(pos) == [k \in 1..legal_count[pos.board] |-> MoveOf(pos.board, k)]

\* The board a move leads to.
NextBoard(board, m) == (board + MovePlace(m)) % Cardinality(Boards)

\* PositionHistory::new, current_pos, do_move, undo_last_move.
PositionHistory_new(pos) == <<pos>>
current_pos(h) == h[Len(h)]
do_move(h, m) ==
    Append(h, [side_to_move |-> Other(current_pos(h).side_to_move),
               board |-> NextBoard(current_pos(h).board, m),
               swapped |-> current_pos(h).swapped])
undo_last_move(h) == SubSeq(h, 1, Len(h) - 1)

\* The position with the colours and the side to move swapped.
Mirror(pos) == [side_to_move |-> Other(pos.side_to_move), board |-> pos.board,
                swapped |-> ~pos.swapped]

\* ---------------------------------------------------------------- Search
Top == frames[Len(frames)]
Callers == SubSeq(frames, 1, Len(frames) - 1)
SetTop(f) == [frames EXCEPT ![Len(frames)] = f]

\* let pv_size = depth * (depth + 1) / 2;
PvSize(depth) == (depth * (depth + 1)) \div 2

\* vec![MoveList::new(); depth]
NewMoveListStack(depth) == [i \in 1..depth |-> << >>]

\* principal_variation.resize(pv_size, Move::NULL)
NewPrincipalVariation(depth) == [i \in 1..PvSize(depth) |-> NULL]

\* Mutant: the buffer is handed back as it is.
NoTruncate(pv, depth) == pv

\* principal_variation.truncate(depth)
Truncate(pv, depth) == IF Len(pv) > depth THEN SubSeq(pv, 1, depth) ELSE pv

\* Mutant: the rows are laid out from the front of the buffer, shortest first.
PvIdxFromFront(pv, depth) == ((depth - 1) * depth) \div 2

\* let idx = principal_variation.len() - dist_from_end;   (0-based)
PvIdx(pv, depth) == Len(pv) - (depth * (depth + 1)) \div 2

\* for i in 1..depth { pv[idx + i] = pv[idx + i + depth - 1]; }   (0-based)
RECURSIVE CopyRow(_, _, _, _)
CopyRow(pv, idx, depth, i) ==
    IF i >= depth THEN pv
    ELSE CopyRow([pv EXCEPT ![idx + i + 1] = pv[idx + i + depth - 1 + 1]],
                 idx, depth, i + 1)

\* Mutant: the best move is recorded without the copy of the child's row.
WriteMoveOnly(pv, depth, best_move) == [pv EXCEPT ![PvIdx(pv, depth) + 1] = best_move]

\* principal_variation[idx] = best_move; followed by the copy of the child's row.
WritePv(pv, depth, best_move) ==
    CopyRow([pv EXCEPT ![PvIdx(pv, depth) + 1] = best_move], PvIdx(pv, depth), depth, 1)

\* The 1-based slots WritePv assigns.
WrittenSlots(pv, depth) == (PvIdx(pv, depth) + 1)..(PvIdx(pv, depth) + depth)

\* Mutant: the recursive call is made with the depth unchanged.
SameDepth(depth) == depth

\* The depth of the recursive call made for a candidate move.
ChildDepth(depth) == depth - 1

\* Mutant: max starts one above Score::MIN.
InitialMaxPlusOne == ScoreMIN + 1

\* let mut max = Score::MIN;
NegamaxInitialMax == ScoreMIN
\* let mut score = Score::MIN + 1;
AlphaBetaInitialScore == ScoreMIN + 1
\* let alpha = Score::MIN + 1; let beta = Score::MAX;
RootAlpha == ScoreMIN + 1
RootBeta == ScoreMAX

\* An activation record of negamax_recursive on entry.
NegamaxFrame(depth, h) ==
    [depth |-> depth, max |-> NegamaxInitialMax, move_list |-> << >>, i |-> 1,
     at |-> "entry", h0 |-> h]

\* An activation record of alpha_beta_recursive on entry.
AlphaBetaFrame(alpha, beta, depth, h) ==
    [depth |-> depth, alpha |-> alpha, beta |-> beta, score |-> AlphaBetaInitialScore,
     move_list |-> << >>, i |-> 1, at |-> "entry", h0 |-> h]

\* The public call whose turn it is: negamax, then alpha_beta, on each history.
Call(fn) == <<fn, mirrored>>
Calls == {"negamax", "alpha_beta"} \X BOOLEAN
Returned(c) == results[c] # << >>
Result(c) == results[c][1]

\* Mutant: the root call's value is reported as it is for either side.
RootNegatesNever(side) == FALSE

\* The match on side_to_move() of the public functions: the root call's value
\* is reported as it is for white to move and negated for black to move.
RootNegates(side) == side = Black
RootScore(side, raw) == IF RootNegates(side) THEN Neg(raw) ELSE raw
RootOutcomes(side, raw) == IF RootNegates(side) THEN NegOutcomes(raw) ELSE {"value"}

\* 0 => max = Eval::eval_relative(pos_history.current_pos())
LeafScore(h) == eval_relative(current_pos(h))

\* Mutant: the moves of the list are tried last first.
NextMoveFromBack(move_list, i) == move_list[Len(move_list) + 1 - i]

\* for m in move_list.iter(): the i-th move tried
NextMove(move_list, i) == move_list[i]

\* if new_score > max
NegamaxImproves(new_score, max) == new_score > max

\* pos_history.undo_last_move() at the end of the loop body
UndoAfterChild(h) == undo_last_move(h)

\* Mutant: the break is taken without undoing the move.
NoUndo(h) == h

\* pos_history.undo_last_move() before the break of the beta cutoff
UndoAtCutoff(h) == undo_last_move(h)

\* Mutant: the move list is not pushed back.
NoPush(stack, move_list) == stack

\* move_list_stack.push(move_list)
PushMoveList(stack, move_list) == Append(stack, move_list)

game_vars == <<eval_table, legal_count, root, depth0>>

\* ------------------------------------------------------- Search::negamax
\* Lines 12-29: the locals are set up and negamax_recursive is called.
negamax ==
    /\ pc = "idle"
    /\ ~Returned(Call("negamax"))
    /\ move_list_stack' = NewMoveListStack(depth0)
    /\ principal_variation' = NewPrincipalVariation(depth0)
    /\ frames' = <<NegamaxFrame(depth0, pos_history)>>
    /\ pc' = "negamax"
    /\ ret' = << >>
    /\ ops' = << >>
    /\ written' = {}
    /\ UNCHANGED <<game_vars, mirrored, pos_history, results, position_vars>>

\* depth == 0: the leaf is evaluated and the call returns.
negamax_recursive_leaf ==
    /\ pc = "negamax"
    /\ frames # << >>
    /\ Top.at = "entry"
    /\ Top.depth = 0
    /\ ret' = <<LeafScore(pos_history)>>
    /\ frames' = Callers
    /\ ops' = <<"eval_relative">>
    /\ UNCHANGED <<game_vars, mirrored, pos_history, pc, move_list_stack,
                   principal_variation, results, written, position_vars>>

\* depth > 0: a move list is popped and filled by the move generator.
negamax_recursive_generate ==
    /\ pc = "negamax"
    /\ frames # << >>
    /\ Top.at = "entry"
    /\ Top.depth > 0
    /\ IF move_list_stack = << >>
       THEN /\ pc' = "panicked"
            /\ ops' = << >>
            /\ UNCHANGED <<move_list_stack, frames>>
       ELSE /\ move_list_stack' = SubSeq(move_list_stack, 1, Len(move_list_stack) - 1)
            /\ frames' = SetTop([Top EXCEPT !.move_list = generate_moves(current_pos(pos_history)),
                                            !.i = 1, !.at = "loop"])
            /\ ops' = <<"generate_moves">>
            /\ UNCHANGED pc
    /\ UNCHANGED <<game_vars, mirrored, pos_history, principal_variation, ret,
                   results, written, position_vars>>

\* The loop body up to the recursive call: do_move, then recurse one ply shallower.
negamax_recursive_do_move ==
    /\ pc = "negamax"
    /\ frames # << >>
    /\ Top.at = "loop"
    /\ Top.i <= Len(Top.move_list)
    /\ pos_history' = do_move(pos_history, NextMove(Top.move_list, Top.i))
    /\ frames' = Append(SetTop([Top EXCEPT !.at = "child"]),
                        NegamaxFrame(ChildDepth(Top.depth), pos_history'))
    /\ ret' = << >>
    /\ ops' = <<"do_move">>
    /\ UNCHANGED <<game_vars, mirrored, pc, move_list_stack, principal_variation,
                   results, written, position_vars>>

\* The loop body after the recursive call: negate, keep the best, undo the move.
negamax_recursive_after_child ==
    /\ pc = "negamax"
    /\ frames # << >>
    /\ Top.at = "child"
    /\ ret # << >>
    /\ \E outcome \in NegOutcomes(ret[1]) :
         IF outcome = "panic"
         THEN /\ pc' = "panicked"
              /\ ops' = << >>
              /\ UNCHANGED <<pos_history, principal_variation, frames, ret, written>>
         ELSE LET new_score == Neg(ret[1])
                  m == NextMove(Top.move_list, Top.i)
                  better == NegamaxImproves(new_score, Top.max)
              IN  /\ principal_variation' =
                        IF better THEN WritePv(principal_variation, Top.depth, m)
                        ELSE principal_variation
                  /\ written' =
                        IF better THEN written \cup WrittenSlots(principal_variation, Top.depth)
                        ELSE written
                  /\ frames' = SetTop([Top EXCEPT !.max = IF better THEN new_score ELSE @,
                                                  !.i = @ + 1, !.at = "loop"])
                  /\ pos_history' = UndoAfterChild(pos_history)
                  /\ ret' = << >>
                  /\ ops' = IF better THEN <<"pv_write", "undo_last_move">>
                            ELSE <<"undo_last_move">>
                  /\ UNCHANGED pc
    /\ UNCHANGED <<game_vars, mirrored, move_list_stack, results, position_vars>>

\* After the loop: the move list goes back on the stack and max is returned.
negamax_recursive_return ==
    /\ pc = "negamax"
    /\ frames # << >>
    /\ Top.at = "loop"
    /\ Top.i > Len(Top.move_list)
    /\ move_list_stack' = PushMoveList(move_list_stack, Top.move_list)
    /\ ret' = <<Top.max>>
    /\ frames' = Callers
    /\ ops' = << >>
    /\ UNCHANGED <<game_vars, mirrored, pos_history, pc, principal_variation,
                   results, written, position_vars>>

\* Lines 17-33: the root call's value, negated for black, and the truncated PV.
negamax_return ==
    /\ pc = "negamax"
    /\ frames = << >>
    /\ ret # << >>
    /\ \E outcome \in RootOutcomes(side_to_move(current_pos(pos_history)), ret[1]) :
         IF outcome = "panic"
         THEN /\ pc' = "panicked"
              /\ UNCHANGED <<results, ret>>
         ELSE /\ results' = [results EXCEPT ![Call("negamax")] =
                    <<[score |-> RootScore(side_to_move(current_pos(pos_history)), ret[1]),
                       pv |-> Truncate(principal_variation, depth0)]>>]
              /\ pc' = "idle"
              /\ ret' = << >>
    /\ ops' = << >>
    /\ UNCHANGED <<game_vars, mirrored, pos_history, move_list_stack,
                   principal_variation, frames, written, position_vars>>

\* ----------------------------------------------------- Search::alpha_beta
\* if new_score >= beta
Cutoff(new_score, beta) == new_score >= beta

\* Mutant: the cutoff returns the child's score (fail-soft).
FailSoftScore(new_score, beta) == new_score

\* score = beta;   (the value a cutoff returns)
CutoffScore(new_score, beta) == beta

\* Mutant: a score equal to alpha counts as an improvement.
ImprovesOrTies(new_score, alpha) == new_score >= alpha

\* if new_score > alpha
AlphaBetaImproves(new_score, alpha) == new_score > alpha

\* The window handed to the root call: (alpha, beta) for white to move,
\* (-beta, -alpha) for black to move.
RootWindow(side) ==
    IF RootNegates(side) THEN <<Neg(RootBeta), Neg(RootAlpha)>> ELSE <<RootAlpha, RootBeta>>

\* What the builds can do with the pair -beta, -alpha.
WindowOutcomes(alpha, beta) ==
    IF NegOverflows(alpha) \/ NegOverflows(beta) THEN {"panic", "wrap"} ELSE {"value"}

\* Lines 37-60: the locals are set up and alpha_beta_recursive is called.
alpha_beta ==
    /\ pc = "idle"
    /\ Returned(Call("negamax"))
    /\ ~Returned(Call("alpha_beta"))
    /\ move_list_stack' = NewMoveListStack(depth0)
    /\ principal_variation' = NewPrincipalVariation(depth0)
    /\ frames' = <<AlphaBetaFrame(RootWindow(side_to_move(current_pos(pos_history)))[1],
                                  RootWindow(side_to_move(current_pos(pos_history)))[2],
                                  depth0, pos_history)>>
    /\ pc' = "alpha_beta"
    /\ ret' = << >>
    /\ ops' = << >>
    /\ written' = {}
    /\ UNCHANGED <<game_vars, mirrored, pos_history, results, position_vars>>

\* depth == 0: the leaf is evaluated and the call returns.
alpha_beta_recursive_leaf ==
    /\ pc = "alpha_beta"
    /\ frames # << >>
    /\ Top.at = "entry"
    /\ Top.depth = 0
    /\ ret' = <<LeafScore(pos_history)>>
    /\ frames' = Callers
    /\ ops' = <<"eval_relative">>
    /\ UNCHANGED <<game_vars, mirrored, pos_history, pc, move_list_stack,
                   principal_variation, results, written, position_vars>>

\* depth > 0: a move list is popped and filled by the move generator.
alpha_beta_recursive_generate ==
    /\ pc = "alpha_beta"
    /\ frames # << >>
    /\ Top.at = "entry"
    /\ Top.depth > 0
    /\ IF move_list_stack = << >>
       THEN /\ pc' = "panicked"
            /\ ops' = << >>
            /\ UNCHANGED <<move_list_stack, frames>>
       ELSE /\ move_list_stack' = SubSeq(move_list_stack, 1, Len(move_list_stack) - 1)
            /\ frames' = SetTop([Top EXCEPT !.move_list = generate_moves(current_pos(pos_history)),
                                            !.i = 1, !.at = "loop"])
            /\ ops' = <<"generate_moves">>
            /\ UNCHANGED pc
    /\ UNCHANGED <<game_vars, mirrored, pos_history, principal_variation, ret,
                   results, written, position_vars>>

\* The loop body up to the recursive call: do_move, then recurse one ply
\* shallower with the window (-beta, -alpha).
alpha_beta_recursive_do_move ==
    /\ pc = "alpha_beta"
    /\ frames # << >>
    /\ Top.at = "loop"
    /\ Top.i <= Len(Top.move_list)
    /\ pos_history' = do_move(pos_history, NextMove(Top.move_list, Top.i))
    /\ \E outcome \in WindowOutcomes(Top.alpha, Top.beta) :
         IF outcome = "panic"
         THEN /\ pc' = "panicked"
              /\ UNCHANGED frames
         ELSE /\ frames' = Append(SetTop([Top EXCEPT !.at = "child"]),
                                  AlphaBetaFrame(Neg(Top.beta), Neg(Top.alpha),
                                                 ChildDepth(Top.depth), pos_history'))
              /\ UNCHANGED pc
    /\ ret' = << >>
    /\ ops' = <<"do_move">>
    /\ UNCHANGED <<game_vars, mirrored, move_list_stack, principal_variation,
                   results, written, position_vars>>

\* The loop body after the recursive call: negate; on new_score >= beta the
\* score is beta, the move is undone and the loop is left; otherwise a score
\* above alpha raises alpha and is recorded in the PV, and the move is undone.
alpha_beta_recursive_after_child ==
    /\ pc = "alpha_beta"
    /\ frames # << >>
    /\ Top.at = "child"
    /\ ret # << >>
    /\ \E outcome \in NegOutcomes(ret[1]) :
         IF outcome = "panic"
         THEN /\ pc' = "panicked"
              /\ ops' = << >>
              /\ UNCHANGED <<pos_history, principal_variation, frames, ret, written>>
         ELSE LET new_score == Neg(ret[1])
                  m == NextMove(Top.move_list, Top.i)
                  cut == Cutoff(new_score, Top.beta)
                  better == ~cut /\ AlphaBetaImproves(new_score, Top.alpha)
              IN  /\ principal_variation' =
                        IF better THEN WritePv(principal_variation, Top.depth, m)
                        ELSE principal_variation
                  /\ written' =
                        IF better THEN written \cup WrittenSlots(principal_variation, Top.depth)
                        ELSE written
                  /\ frames' =
                        IF cut THEN SetTop([Top EXCEPT !.score = CutoffScore(new_score, Top.beta),
                                                   !.at = "break"])
                        ELSE SetTop([Top EXCEPT !.alpha = IF better THEN new_score ELSE @,
                                                !.score = IF better THEN new_score ELSE @,
                                                !.i = @ + 1, !.at = "loop"])
                  /\ pos_history' = IF cut THEN UndoAtCutoff(pos_history)
                                    ELSE UndoAfterChild(pos_history)
                  /\ ret' = << >>
                  /\ ops' = IF better THEN <<"pv_write", "undo_last_move">>
                            ELSE <<"undo_last_move">>
                  /\ UNCHANGED pc
    /\ UNCHANGED <<game_vars, mirrored, move_list_stack, results, position_vars>>

\* After the loop or the break: the move list goes back on the stack and
\* score is returned.
alpha_beta_recursive_return ==
    /\ pc = "alpha_beta"
    /\ frames # << >>
    /\ (Top.at = "break" \/ (Top.at = "loop" /\ Top.i > Len(Top.move_list)))
    /\ move_list_stack' = PushMoveList(move_list_stack, Top.move_list)
    /\ ret' = <<Top.score>>
    /\ frames' = Callers
    /\ ops' = << >>
    /\ UNCHANGED <<game_vars, mirrored, pos_history, pc, principal_variation,
                   results, written, position_vars>>

\* Lines 44-64: the root call's value, negated for black, and the truncated PV.
alpha_beta_return ==
    /\ pc = "alpha_beta"
    /\ frames = << >>
    /\ ret # << >>
    /\ \E outcome \in RootOutcomes(side_to_move(current_pos(pos_history)), ret[1]) :
         IF outcome = "panic"
         THEN /\ pc' = "panicked"
              /\ UNCHANGED <<results, ret>>
         ELSE /\ results' = [results EXCEPT ![Call("alpha_beta")] =
                    <<[score |-> RootScore(side_to_move(current_pos(pos_history)), ret[1]),
                       pv |-> Truncate(principal_variation, depth0)]>>]
              /\ pc' = "idle"
              /\ ret' = << >>
    /\ ops' = << >>
    /\ UNCHANGED <<game_vars, mirrored, pos_history, move_list_stack,
                   principal_variation, frames, written, position_vars>>

\* The caller goes on to the mirrored position: PositionHistory::new(mirror).
new_history_mirrored ==
    /\ pc = "idle"
    /\ ~mirrored
    /\ Returned(Call("negamax"))
    /\ Returned(Call("alpha_beta"))
    /\ pos_history' = PositionHistory_new(Mirror(root))
    /\ mirrored' = TRUE
    /\ ops' = << >>
    /\ UNCHANGED <<game_vars, pc, move_list_stack, principal_variation, frames, ret,
                   results, written, position_vars>>

\* The games, root positions and depths searched.  The caller searches the
\* root, white to move, and then its mirror image, black to move.
Games == [Boards -> EvalValues]
LegalCounts ==
    {c \in [Boards -> 0..MaxMoves] : Cardinality({b \in Boards : c[b] < MaxMoves}) <= 1}
Roots == [side_to_move : {White}, board : {0}, swapped : {FALSE}]

\* ---------------------------------------------------------------- Bitboard
\* A Bitboard is a 64-bit word; it is modelled as the set of the indices of
\* its set bits, so that & is intersection and | is union.
NUM_RANKS == 8
NUM_FILES == 8
EMPTY == {}

\* Bitboard::to_square: the index of the square of a rank and a file (0-based).
\* The numbering is Bitboard's; both conventions are kept.
Layouts == {"rank_major", "file_major"}
to_square(rank, file) ==
    IF layout = "rank_major" THEN rank * NUM_FILES + file ELSE file * NUM_RANKS + rank

\* Bitboard(0x1 << square_index)
SquareBit(square_index) == {square_index}

\* The named constants: Bitboard::RANK_1.., Bitboard::A1.., Bitboard::IDX_A1..
IDX(rank, file) == to_square(rank, file)
SQ(rank, file) == SquareBit(IDX(rank, file))
RANK(rank) == {to_square(rank, file) : file \in 0..(NUM_FILES - 1)}
FileA == 0
FileB == 1
FileC == 2
FileD == 3
FileE == 4
FileF == 5
FileG == 6
FileH == 7
Rank1 == 0
Rank2 == 1
Rank7 == 6
Rank8 == 7

\* ---------------------------------------------------------------- Position
\* CastlingRights: the flags and their unions.
WHITE_KINGSIDE == 1
WHITE_QUEENSIDE == 2
BLACK_KINGSIDE == 4
BLACK_QUEENSIDE == 8

\* The bitwise or of two flag words.
RECURSIVE BitOr(_, _)
BitOr(a, b) ==
    IF a = 0 /\ b = 0 THEN 0
    ELSE (IF a % 2 = 1 \/ b % 2 = 1 THEN 1 ELSE 0) + 2 * BitOr(a \div 2, b \div 2)

WHITE_BOTH == BitOr(WHITE_KINGSIDE, WHITE_QUEENSIDE)
BLACK_BOTH == BitOr(BLACK_KINGSIDE, BLACK_QUEENSIDE)

\* Mutant: the black king and queen stand on each other's squares.
Position_initial_swapped ==
    [pawns |-> RANK(Rank2) \cup RANK(Rank7),
     knights |-> SQ(Rank1, FileB) \cup SQ(Rank1, FileG) \cup SQ(Rank8, FileB) \cup SQ(Rank8, FileG),
     bishops |-> SQ(Rank1, FileC) \cup SQ(Rank1, FileF) \cup SQ(Rank8, FileC) \cup SQ(Rank8, FileF),
     rooks |-> SQ(Rank1, FileA) \cup SQ(Rank1, FileH) \cup SQ(Rank8, FileA) \cup SQ(Rank8, FileH),
     queens |-> SQ(Rank1, FileD) \cup SQ(Rank8, FileE),
     kings |-> SQ(Rank1, FileE) \cup SQ(Rank8, FileD),
     white_pieces |-> RANK(Rank1) \cup RANK(Rank2),
     black_pieces |-> RANK(Rank7) \cup RANK(Rank8),
     en_passant_square |-> EMPTY,
     side_to_move |-> White,
     castling_rights |-> BitOr(WHITE_BOTH, BLACK_BOTH),
     plies_since_pawn_move_or_capture |-> 0,
     move_count |-> 1]

\* Position::initial()
Position_initial ==
    [pawns |-> RANK(Rank2) \cup RANK(Rank7),
     knights |-> SQ(Rank1, FileB) \cup SQ(Rank1, FileG) \cup SQ(Rank8, FileB) \cup SQ(Rank8, FileG),
     bishops |-> SQ(Rank1, FileC) \cup SQ(Rank1, FileF) \cup SQ(Rank8, FileC) \cup SQ(Rank8, FileF),
     rooks |-> SQ(Rank1, FileA) \cup SQ(Rank1, FileH) \cup SQ(Rank8, FileA) \cup SQ(Rank8, FileH),
     queens |-> SQ(Rank1, FileD) \cup SQ(Rank8, FileD),
     kings |-> SQ(Rank1, FileE) \cup SQ(Rank8, FileE),
     white_pieces |-> RANK(Rank1) \cup RANK(Rank2),
     black_pieces |-> RANK(Rank7) \cup RANK(Rank8),
     en_passant_square |-> EMPTY,
     side_to_move |-> White,
     castling_rights |-> BitOr(WHITE_BOTH, BLACK_BOTH),
     plies_since_pawn_move_or_capture |-> 0,
     move_count |-> 1]

\* Position::piece_at: the colour first, then the piece type in a fixed order,
\* the king being what is left.
piece_at(p, square_index) ==
    LET sq == SquareBit(square_index)
    IN  IF sq \cap p.white_pieces # EMPTY
        THEN IF sq \cap p.pawns # EMPTY THEN "WhitePawn"
             ELSE IF sq \cap p.knights # EMPTY THEN "WhiteKnight"
             ELSE IF sq \cap p.bishops # EMPTY THEN "WhiteBishop"
             ELSE IF sq \cap p.rooks # EMPTY THEN "WhiteRook"
             ELSE IF sq \cap p.queens # EMPTY THEN "WhiteQueen"
             ELSE "WhiteKing"
        ELSE IF sq \cap p.black_pieces # EMPTY
        THEN IF sq \cap p.pawns # EMPTY THEN "BlackPawn"
             ELSE IF sq \cap p.knights # EMPTY THEN "BlackKnight"
             ELSE IF sq \cap p.bishops # EMPTY THEN "BlackBishop"
             ELSE IF sq \cap p.rooks # EMPTY THEN "BlackRook"
             ELSE IF sq \cap p.queens # EMPTY THEN "BlackQueen"
             ELSE "BlackKing"
        ELSE "None"

\* debug_assert_ne!(square & self.kings, Bitboard::EMPTY) of the king branches.
KingAsserted(p, square_index) ==
    piece_at(p, square_index) \in {"WhiteKing", "BlackKing"}
        => SquareBit(square_index) \cap p.kings # EMPTY

\* let pos = Position::initial();
initial ==
    /\ position = << >>
    /\ position' = <<Position_initial>>
    /\ UNCHANGED <<layout, square, piece, search_vars>>

\* pos.piece_at(square_index) for a square index in [0, 64).
query_piece_at ==
    /\ position # << >>
    /\ \E square_index \in 0..(NUM_RANKS * NUM_FILES - 1) :
         /\ square' = <<square_index>>
         /\ piece' = <<piece_at(position[1], square_index)>>
    /\ UNCHANGED <<layout, position, search_vars>>

PositionIdle ==
    /\ layout = "rank_major"
    /\ position = << >>
    /\ square = << >>
    /\ piece = << >>

SearchIdle ==
    /\ eval_table = [b \in Boards |-> 1]
    /\ legal_count = [b \in Boards |-> MaxMoves]
    /\ root = [side_to_move |-> White, board |-> 0, swapped |-> FALSE]
    /\ depth0 = 0
    /\ mirrored = FALSE
    /\ pos_history = PositionHistory_new(root)
    /\ pc = "idle"
    /\ move_list_stack = << >>
    /\ principal_variation = << >>
    /\ frames = << >>
    /\ ret = << >>
    /\ results = [c \in Calls |-> << >>]
    /\ ops = << >>
    /\ written = {}

PositionInit ==
    /\ layout \in Layouts
    /\ position = << >>
    /\ square = << >>
    /\ piece = << >>
    /\ SearchIdle

PositionNext ==
    \/ initial
    \/ query_piece_at

PositionSpec == PositionInit /\ [][PositionNext]_vars

Init ==
    /\ eval_table \in Games
    /\ legal_count \in LegalCounts
    /\ root \in Roots
    /\ depth0 \in 0..MaxDepth
    /\ mirrored = FALSE
    /\ pos_history = PositionHistory_new(root)
    /\ pc = "idle"
    /\ move_list_stack = << >>
    /\ principal_variation = << >>
    /\ frames = << >>
    /\ ret = << >>
    /\ results = [c \in Calls |-> << >>]
    /\ ops = << >>
    /\ written = {}
    /\ PositionIdle

Next ==
    \/ negamax
    \/ negamax_recursive_leaf
    \/ negamax_recursive_generate
    \/ negamax_recursive_do_move
    \/ negamax_recursive_after_child
    \/ negamax_recursive_return
    \/ negamax_return
    \/ alpha_beta
    \/ alpha_beta_recursive_leaf
    \/ alpha_beta_recursive_generate
    \/ alpha_beta_recursive_do_move
    \/ alpha_beta_recursive_after_child
    \/ alpha_beta_recursive_return
    \/ alpha_beta_return
    \/ new_history_mirrored

Spec == Init /\ [][Next]_vars

\* The steps of a search are taken one after the other until it returns.
FairSpec == Spec /\ WF_vars(Next)

\* ------------------------------------------------------------- properties
Running == pc \in {"negamax", "alpha_beta"}

\* The position a public call was made on.
CallRoot(c) == IF c[2] THEN Mirror(root) ELSE root

\* The history the caller handed to the public call in progress.
CallerHistory == PositionHistory_new(IF mirrored THEN Mirror(root) ELSE root)

\* Applying the moves of a line in order from a position: <<p>> where every
\* move is a legal move of the position it is played in, << >> otherwise.
RECURSIVE Replay(_, _)
Replay(pos, line) ==
    IF line = << >> THEN <<pos>>
    ELSE IF \E k \in DOMAIN generate_moves(pos) : generate_moves(pos)[k] = Head(line)
         THEN Replay(current_pos(do_move(<<pos>>, Head(line))), Tail(line))
         ELSE << >>

SetMax(S) == CHOOSE x \in S : \A y \in S : y <= x
SetMin(S) == CHOOSE x \in S : \A y \in S : x <= y

\* The reference minimax over the integers: white-to-move nodes maximise and
\* black-to-move nodes minimise the white-relative leaf evaluation; a node
\* without moves takes the value the empty maximum (minimum) has in the Score
\* convention of the search, Score::MIN for white and its negation for black.
RECURSIVE Minimax(_, _)
Minimax(pos, depth) ==
    IF depth = 0 THEN eval(pos)
    ELSE LET ms == generate_moves(pos)
             vals == {Minimax(current_pos(do_move(<<pos>>, ms[k])), depth - 1) : k \in DOMAIN ms}
         IN  IF pos.side_to_move = White THEN SetMax(vals \cup {ScoreMIN})
             ELSE SetMin(vals \cup {0 - ScoreMIN})

\* Every board of the game has a legal move.
EveryNodeHasMoves == \A b \in Boards : legal_count[b] >= 1

\* C1: negamax and alpha_beta, run on the same history at the same depth,
\* return the same score.
C1_SameScore ==
    \A m \in BOOLEAN :
        (Returned(<<"negamax", m>>) /\ Returned(<<"alpha_beta", m>>))
            => Result(<<"negamax", m>>).score = Result(<<"alpha_beta", m>>).score

\* Supporting C1: the scores agree in every game whose boards all have moves.
C1_SameScoreWithMoves == EveryNodeHasMoves => C1_SameScore

\* C2: applying the returned principal variation from the searched position
\* and evaluating the position reached with eval gives the returned score.
C2_PvReplay ==
    \A c \in Calls :
        Returned(c) =>
            /\ Replay(CallRoot(c), Result(c).pv) # << >>
            /\ eval(Replay(CallRoot(c), Result(c).pv)[1]) = Result(c).score

\* C3 as stated: negamax at depth 0 returns eval_relative of the position,
\* for either side to move, and an empty principal variation.
C3_DepthZeroRelative ==
    \A m \in BOOLEAN :
        (depth0 = 0 /\ Returned(<<"negamax", m>>)) =>
            /\ Result(<<"negamax", m>>).score = eval_relative(CallRoot(<<"negamax", m>>))
            /\ Result(<<"negamax", m>>).pv = << >>

\* C3 amended: negamax at depth 0 returns the white-relative evaluation of the
\* position, eval_relative for white to move and its negation for black to
\* move, and an empty principal variation.
C3_DepthZeroWhiteRelative ==
    \A m \in BOOLEAN :
        (depth0 = 0 /\ Returned(<<"negamax", m>>)) =>
            LET p == CallRoot(<<"negamax", m>>)
            IN  /\ Result(<<"negamax", m>>).score =
                      (IF p.side_to_move = White THEN eval_relative(p)
                       ELSE 0 - eval_relative(p))
                /\ Result(<<"negamax", m>>).pv = << >>

C3_Witness ==
    /\ depth0 = 0
    /\ Mirror(root).side_to_move = Black
    /\ Returned(<<"negamax", TRUE>>)
    /\ eval_relative(Mirror(root)) = 2
    /\ Result(<<"negamax", TRUE>>).score = 0 - 2

\* C4: the score negamax returns is the depth-d minimax value of the root in
\* which white maximises and black minimises the white-relative evaluation.
C4_WhiteRelativeMinimax ==
    \A m \in BOOLEAN :
        Returned(<<"negamax", m>>) =>
            Result(<<"negamax", m>>).score = Minimax(CallRoot(<<"negamax", m>>), depth0)

\* Supporting C4: it is so in every game whose boards all have moves.
C4_MinimaxWithMoves == EveryNodeHasMoves => C4_WhiteRelativeMinimax

\* C5: every do_move is undone before the next candidate is tried or the call
\* returns: a call that is about to generate, to try a move or to return (after
\* the loop or after the cutoff break) sees the history it was entered with,
\* a call whose child has returned sees that history and the one move it made,
\* and the caller's history is what it handed over once the root call is back.
C5_HistoryRestored ==
    /\ (Running /\ frames # << >>) =>
          /\ \A k \in 1..Len(frames) :
                /\ Len(frames[k].h0) = Len(CallerHistory) + k - 1
                /\ SubSeq(pos_history, 1, Len(frames[k].h0)) = frames[k].h0
          /\ Top.at \in {"entry", "loop", "break"} => pos_history = Top.h0
          /\ (Top.at = "child" /\ ret # << >>) =>
                pos_history = do_move(Top.h0, Top.move_list[Top.i])
    /\ (Running /\ frames = << >>) => pos_history = CallerHistory
    /\ pc = "idle" => pos_history = CallerHistory

C5_Witness ==
    /\ pc = "alpha_beta"
    /\ frames # << >>
    /\ Top.at = "break"
    /\ Top.i < Len(Top.move_list)
    /\ Len(frames) > 1
    /\ pos_history = Top.h0

\* C6: a recursive call at depth > 0 on a position without legal moves
\* returns Score::MIN in negamax and Score::MIN + 1 in alpha-beta; of the
\* collaborators it calls the move generator only, and it leaves the PV
\* buffer and the history alone.
C6_NoMovesSentinel ==
    [][(Running /\ frames # << >> /\ Top.depth > 0
        /\ generate_moves(current_pos(Top.h0)) = << >>
        /\ Top.at \in {"entry", "loop"})
       => /\ pos_history' = pos_history
          /\ principal_variation' = principal_variation
          /\ written' = written
          /\ Top.at = "entry" => (ops' = <<"generate_moves">> /\ Top'.at = "loop"
                                  /\ Top'.move_list = << >>)
          /\ Top.at = "loop" =>
                /\ ops' = << >>
                /\ frames' = Callers
                /\ ret' = <<IF pc = "negamax" THEN ScoreMIN ELSE ScoreMIN + 1>>]_vars

C6_Witness ==
    /\ pc = "alpha_beta"
    /\ frames # << >>
    /\ Top.at = "child"
    /\ Top.depth > 1
    /\ generate_moves(current_pos(pos_history)) = << >>
    /\ ret = <<ScoreMIN + 1>>
    /\ ops = << >>

\* C7: the depth argument decreases by one on each recursive call and the
\* recursion stops at depth 0, so every search that is started comes to an end.
DepthDecreases ==
    /\ Len(frames) <= depth0 + 1
    /\ \A k \in 1..Len(frames) :
          /\ frames[k].depth >= 0
          /\ frames[k].depth = depth0 - (k - 1)
          /\ k < Len(frames) => frames[k].depth > 0

C7_Terminates == []DepthDecreases /\ (Running ~> ~Running)

C7_Witness ==
    /\ depth0 = MaxDepth
    /\ EveryNodeHasMoves
    /\ pc = "idle"
    /\ Returned(<<"alpha_beta", TRUE>>)

\* C8: the principal variation returned has length exactly depth; a slot of
\* the buffer that no improving move wrote holds Move::NULL.
C8_PvLength ==
    /\ \A c \in Calls :
          Returned(c) =>
              /\ Len(Result(c).pv) = depth0
              /\ \A i \in 1..Len(Result(c).pv) : Result(c).pv[i] \in Moves \cup {NULL}
    /\ Running =>
          /\ Len(principal_variation) = PvSize(depth0)
          /\ \A i \in 1..Len(principal_variation) :
                i \notin written => principal_variation[i] = NULL

C8_Witness ==
    /\ depth0 = 2
    /\ EveryNodeHasMoves
    /\ pc = "idle"
    /\ ~mirrored
    /\ Returned(<<"alpha_beta", FALSE>>)
    /\ Result(<<"alpha_beta", FALSE>>).pv = <<NULL, NULL>>
    /\ written = {3}

\* C9: searching the mirrored position at the same depth returns the
\* negation of the score returned for the position, for both searches.
C9_MirrorNegates ==
    \A fn \in {"negamax", "alpha_beta"} :
        (Returned(<<fn, FALSE>>) /\ Returned(<<fn, TRUE>>))
            => Result(<<fn, TRUE>>).score = 0 - Result(<<fn, FALSE>>).score

\* Supporting C9: it is so in every game whose boards all have moves.
C9_MirrorWithMoves == EveryNodeHasMoves => C9_MirrorNegates

\* The standard starting position, square by square (0-based rank and file).
WhiteBackRank == <<"WhiteRook", "WhiteKnight", "WhiteBishop", "WhiteQueen",
                   "WhiteKing", "WhiteBishop", "WhiteKnight", "WhiteRook">>
BlackBackRank == <<"BlackRook", "BlackKnight", "BlackBishop", "BlackQueen",
                   "BlackKing", "BlackBishop", "BlackKnight", "BlackRook">>
StandardPiece(rank, file) ==
    CASE rank = 0 -> WhiteBackRank[file + 1]
      [] rank = 1 -> "WhitePawn"
      [] rank = 6 -> "BlackPawn"
      [] rank = 7 -> BlackBackRank[file + 1]
      [] OTHER -> "None"

AllSquares == 0..63
TypeBoards(p) == <<p.pawns, p.knights, p.bishops, p.rooks, p.queens, p.kings>>
ColourBoards(p) == <<p.white_pieces, p.black_pieces>>
CountIn(boards, s) == Cardinality({k \in DOMAIN boards : s \in boards[k]})
HasFlag(rights, flag) == (rights \div flag) % 2 = 1

\* C10: Position::initial() is the standard starting position: piece_at
\* returns the standard piece on each of the 64 squares, every occupied
\* square lies in exactly one colour bitboard and exactly one piece-type
\* bitboard, white is to move, all four castling rights are set, there is no
\* en-passant square, the halfmove clock is 0 and the move counter is 1.
C10_InitialPosition ==
    position # << >> =>
        LET p == position[1]
        IN  /\ \A rank \in 0..7, file \in 0..7 :
                  piece_at(p, to_square(rank, file)) = StandardPiece(rank, file)
            /\ \A k \in 1..6 : TypeBoards(p)[k] \subseteq AllSquares
            /\ \A k \in 1..2 : ColourBoards(p)[k] \subseteq AllSquares
            /\ \A s \in AllSquares :
                  \/ CountIn(TypeBoards(p), s) = 0 /\ CountIn(ColourBoards(p), s) = 0
                  \/ CountIn(TypeBoards(p), s) = 1 /\ CountIn(ColourBoards(p), s) = 1
            /\ \A s \in AllSquares : KingAsserted(p, s)
            /\ p.side_to_move = White
            /\ \A flag \in {1, 2, 4, 8} : HasFlag(p.castling_rights, flag)
            /\ p.castling_rights < 16
            /\ p.en_passant_square = {}
            /\ p.plies_since_pawn_move_or_capture = 0
            /\ p.move_count = 1
            /\ piece # << >> =>
                  \E rank \in 0..7, file \in 0..7 :
                      /\ square[1] = to_square(rank, file)
                      /\ piece[1] = StandardPiece(rank, file)

C10_Witness ==
    /\ position # << >>
    /\ square = <<to_square(7, 3)>>
    /\ piece = <<"BlackQueen">>

\* The exhaustive negamax value of a node over the integers: the leaf's
\* side-relative evaluation at depth 0, otherwise the maximum of the negated
\* values of the children, Score::MIN when there is no child.
RECURSIVE NegamaxValue(_, _)
NegamaxValue(pos, depth) ==
    IF depth = 0 THEN eval_relative(pos)
    ELSE LET ms == generate_moves(pos)
         IN  SetMax({0 - NegamaxValue(current_pos(do_move(<<pos>>, ms[k])), depth - 1) :
                         k \in DOMAIN ms} \cup {ScoreMIN})

\* What a fail-hard search of the window (alpha, beta) returns, r, on a node
\* of value v.
FailHard(r, v, alpha, beta) ==
    /\ (v >= beta => r = beta)
    /\ ((alpha < v /\ v < beta) => r = v)
    /\ (v <= alpha => r <= alpha)
    /\ r <= beta

\* The value a call of alpha_beta_recursive at depth >= min_depth has just
\* returned is the fail-hard value of its node for the window it was called
\* with: the root call's window, or (-beta, -alpha) of the caller waiting.
FailHardReturns(min_depth) ==
    (pc = "alpha_beta" /\ ret # << >>) =>
        IF frames = << >>
        THEN LET w == RootWindow(side_to_move(current_pos(pos_history)))
             IN  (w[1] < w[2] /\ depth0 >= min_depth) =>
                    FailHard(ret[1], NegamaxValue(current_pos(pos_history), depth0), w[1], w[2])
        ELSE (Top.at = "child" /\ Neg(Top.beta) < Neg(Top.alpha)
                /\ ChildDepth(Top.depth) >= min_depth) =>
                FailHard(ret[1], NegamaxValue(current_pos(pos_history), ChildDepth(Top.depth)),
                         Neg(Top.beta), Neg(Top.alpha))

\* A call at depth 0 returns the leaf's evaluation whatever its window is.
LeafReturnsEval ==
    (pc = "alpha_beta" /\ ret # << >>) =>
        IF frames = << >>
        THEN depth0 = 0 => ret[1] = eval_relative(current_pos(pos_history))
        ELSE (Top.at = "child" /\ ChildDepth(Top.depth) = 0)
                => ret[1] = eval_relative(current_pos(pos_history))

\* A child score >= beta ends the loop: the next step of the call is its
\* return, of beta, with no further move applied.
CutoffEndsLoop ==
    (pc = "alpha_beta" /\ pc' = "alpha_beta" /\ frames # << >>) =>
        /\ (Top.at = "child" /\ ret # << >> /\ Neg(ret[1]) >= Top.beta)
              => (Len(frames') = Len(frames) /\ Top'.at = "break")
        /\ Top.at = "break"
              => (frames' = Callers /\ ret' = <<Top.beta>> /\ pos_history' = pos_history)

\* C11: alpha_beta_recursive is fail-hard and score-preserving: called with
\* alpha < beta on a node of exhaustive negamax value v it returns beta if
\* v >= beta, v if alpha < v < beta and a value <= alpha if v <= alpha, never
\* more than beta, and after a cutoff no further sibling move is searched.
C11_FailHard == []FailHardReturns(0) /\ [][CutoffEndsLoop]_vars

\* C11 (amended): the fail-hard return values are those of the calls at
\* depth > 0; a call at depth 0 returns the leaf's evaluation, inside the
\* window or not; after a cutoff no further sibling move is searched.
C11_FailHardAboveLeaves ==
    []FailHardReturns(1) /\ []LeafReturnsEval /\ [][CutoffEndsLoop]_vars

\* A cutoff on a node worth more than beta, taken with a sibling move left
\* unsearched.
C11_Witness ==
    /\ pc = "alpha_beta"
    /\ frames # << >>
    /\ Top.at = "break"
    /\ Top.i < Len(Top.move_list)
    /\ Top.beta < ScoreMAX
    /\ NegamaxValue(current_pos(pos_history), Top.depth) > Top.beta

\* The values of the evaluator lie in [Score::MIN+1, Score::MAX].
EvaluatorInRange == \A b \in Boards : eval_table[b] >= ScoreMIN + 1 /\ eval_table[b] <= ScoreMAX

InRange(x) == x >= ScoreMIN + 1 /\ x <= ScoreMAX

\* The values the next step of the search negates: the score a child has
\* returned, the root call's result for black to move, and alpha and beta of
\* a call about to recurse.
NegationOperands ==
    IF ~Running THEN {}
    ELSE IF frames = << >>
         THEN IF ret # << >> /\ RootNegates(side_to_move(current_pos(pos_history)))
              THEN {ret[1]} ELSE {}
         ELSE (IF Top.at = "child" /\ ret # << >> THEN {ret[1]} ELSE {})
              \cup (IF pc = "alpha_beta" /\ Top.at = "loop" /\ Top.i <= Len(Top.move_list)
                    THEN {Top.alpha, Top.beta} ELSE {})

\* In alpha_beta every alpha, beta and score of a call, and every returned
\* score, lies in [Score::MIN+1, Score::MAX].
AlphaBetaInRange ==
    pc = "alpha_beta" =>
        /\ \A k \in DOMAIN frames :
               InRange(frames[k].alpha) /\ InRange(frames[k].beta) /\ InRange(frames[k].score)
        /\ ret # << >> => InRange(ret[1])

\* C12: with an evaluator in [Score::MIN+1, Score::MAX] no negation of a
\* search is applied to Score::MIN, and in alpha_beta every alpha, beta and
\* returned score stays in [Score::MIN+1, Score::MAX].
C12_NoNegationOfMin ==
    EvaluatorInRange => (ScoreMIN \notin NegationOperands /\ AlphaBetaInRange)

\* Supporting: the alpha_beta half of C12 holds in every game, and the whole
\* of it where every position has a legal move.
C12_AlphaBetaRange ==
    EvaluatorInRange =>
        /\ AlphaBetaInRange
        /\ pc = "alpha_beta" => ScoreMIN \notin NegationOperands
        /\ EveryNodeHasMoves => ScoreMIN \notin NegationOperands

\* The calls in progress that have popped their move list and not yet pushed
\* it back: a call leaves "entry" by the pop and ends with the push.
HoldingMoveList == {k \in DOMAIN frames : frames[k].at # "entry"}

\* C13: a search at depth D starts with D buffers on the move-list stack;
\* a call entered at depth d > 0 finds at least d of them; every call in
\* progress holds exactly the one buffer it popped and pushes it back on each
\* exit path, so the stack is as a call found it when the call returns and
\* holds D buffers again when the top-level call has returned.
C13_StackDiscipline ==
    /\ Running =>
          /\ Len(move_list_stack) + Cardinality(HoldingMoveList) = depth0
          /\ (frames # << >> /\ Top.at = "entry" /\ Top.depth > 0)
                => (Len(move_list_stack) >= Top.depth /\ move_list_stack # << >>)
          /\ (frames # << >> /\ Top.at = "entry")
                => Len(move_list_stack) = depth0 - (Len(frames) - 1)
          /\ (frames # << >> /\ ret # << >>)
                => Len(move_list_stack) = depth0 - Len(frames)
          /\ (frames = << >> /\ ret # << >>) => Len(move_list_stack) = depth0
    /\ (pc = "idle" /\ \E fn \in {"negamax", "alpha_beta"} : Returned(Call(fn)))
          => Len(move_list_stack) = depth0

\* The top-level call of the deepest search is back after leaving its loop
\* by the beta-cutoff break, its score then being beta, with the stack whole.
C13_Witness ==
    /\ pc = "alpha_beta"
    /\ ~mirrored
    /\ depth0 = MaxDepth
    /\ frames = << >>
    /\ ret = <<RootBeta>>
    /\ Len(move_list_stack) = depth0

\* The triangular table, 0-based as in the source: the row of depth d starts
\* at L - d(d+1)/2 and has d slots.
RowStart(L, d) == L - (d * (d + 1)) \div 2
Row(L, d) == RowStart(L, d)..(RowStart(L, d) + d - 1)

\* The buffer has length D(D+1)/2; the rows of the depths 1..D lie inside
\* it and do not overlap, and the row of depth D is the slots [0, D).
PvRowsDisjoint ==
    Running =>
        LET L == Len(principal_variation)
        IN  /\ L = (depth0 * (depth0 + 1)) \div 2
            /\ \A d \in 1..depth0 : Row(L, d) \subseteq 0..(L - 1)
            /\ \A d1, d2 \in 1..depth0 : d1 # d2 => Row(L, d1) \cap Row(L, d2) = {}
            /\ Row(L, depth0) = 0..(depth0 - 1)

\* The move just tried improves on the best so far (and, in alpha_beta,
\* causes no cutoff).
ImprovingMove ==
    /\ frames # << >>
    /\ Top.at = "child"
    /\ ret # << >>
    /\ IF pc = "negamax" THEN Neg(ret[1]) > Top.max
       ELSE Neg(ret[1]) > Top.alpha /\ Neg(ret[1]) < Top.beta

\* A step of a recursive call at depth d changes no slot outside the row of
\* d; on an improving move, and only then, it sets the first slot of the row
\* to the move and the d-1 slots after it to the d-1 slots of the row of d-1.
PvWriteStep ==
    (Running /\ pc' = pc /\ frames # << >>) =>
        LET L == Len(principal_variation)
            d == Top.depth
        IN  /\ Len(principal_variation') = L
            /\ \A s \in 0..(L - 1) :
                   principal_variation'[s + 1] # principal_variation[s + 1] => s \in Row(L, d)
            /\ ImprovingMove <=> (ops' # << >> /\ ops'[1] = "pv_write")
            /\ ImprovingMove =>
                  /\ d >= 1 /\ d <= depth0
                  /\ principal_variation'[RowStart(L, d) + 1] = Top.move_list[Top.i]
                  /\ \A j \in 1..(d - 1) :
                         /\ RowStart(L, d - 1) + j - 1 \in Row(L, d - 1)
                         /\ principal_variation'[RowStart(L, d) + j + 1]
                              = principal_variation[RowStart(L, d - 1) + j - 1 + 1]

\* C14: triangular PV layout: with buffer length L = D(D+1)/2 a call at
\* depth d writes only the slots [L - d(d+1)/2, L - d(d+1)/2 + d); on an
\* improving move it sets the first of them to the move and copies the row
\* of depth d-1 into the d-1 slots after it; every index is in [0, L), the
\* rows of different depths do not overlap and the row of D is [0, D).
C14_TriangularPv == []PvRowsDisjoint /\ [][PvWriteStep]_vars

\* The root call of the deepest search has recorded its second move as an
\* improving one, and its row continues with the row of the depth below.
C14_Witness ==
    /\ Running
    /\ depth0 = MaxDepth
    /\ Len(frames) = 1
    /\ ops = <<"pv_write", "undo_last_move">>
    /\ Top.i > 2
    /\ \A j \in 1..(depth0 - 1) :
           principal_variation[j + 1] = principal_variation[RowStart(PvSize(depth0), depth0 - 1) + j]

\* The call that takes the step is still in progress after it, in the same
\* activation record.
SameCall == pc' = pc /\ Len(frames') = Len(frames)

\* The evaluator is called by the calls at depth 0, which do nothing else,
\* and by no other.
EvaluatorAtLeaves ==
    /\ (ops' # ops /\ \E k \in DOMAIN ops' : ops'[k] = "eval_relative")
          => (frames # << >> /\ Top.depth = 0 /\ Top.at = "entry"
              /\ ret' = <<eval_relative(current_pos(pos_history))>>)
    /\ (Running /\ frames # << >> /\ Top.depth = 0)
          => (ops' = <<"eval_relative">> /\ frames' = Callers)

\* The move generator is called by the calls at depth > 0, as their first
\* step and at no later one, on the position the call was entered with.
GeneratorOncePerNode ==
    /\ (ops' # ops /\ \E k \in DOMAIN ops' : ops'[k] = "generate_moves")
          => /\ frames # << >> /\ Top.depth > 0 /\ Top.at = "entry"
             /\ pos_history = Top.h0 /\ pos_history' = pos_history
             /\ SameCall
             /\ Top'.move_list = generate_moves(current_pos(Top.h0))
             /\ Top'.i = 1
             /\ Top'.at # "entry"
    /\ (Running /\ frames # << >> /\ Top.depth > 0 /\ Top.at = "entry" /\ pc' = pc)
          => ops' = <<"generate_moves">>
    /\ (Running /\ frames # << >> /\ Top.at # "entry" /\ SameCall)
          => (Top'.at # "entry" /\ Top'.move_list = Top.move_list)

\* The i-th move applied by a call is the i-th move the generator listed for
\* its position; it is applied to the position of the call, every earlier
\* move undone, and the step after the child's return undoes it and goes on
\* to move i+1 or leaves the loop.
MovesInGeneratorOrder ==
    /\ (ops' # ops /\ ops' = <<"do_move">>)
          => /\ frames # << >> /\ Top.at = "loop"
             /\ pos_history = Top.h0
             /\ Top.i \in DOMAIN generate_moves(current_pos(Top.h0))
             /\ pos_history' = do_move(Top.h0, generate_moves(current_pos(Top.h0))[Top.i])
    /\ (Running /\ frames # << >> /\ Top.at = "child" /\ ret # << >> /\ SameCall)
          => /\ ops'[Len(ops')] = "undo_last_move"
             /\ pos_history' = Top.h0
             /\ \/ Top'.at = "loop" /\ Top'.i = Top.i + 1
                \/ Top'.at = "break" /\ Top'.i = Top.i

\* C15: in both searches the evaluator is called only at nodes of depth 0
\* and the move generator only at nodes of depth > 0, once per node, on the
\* node's position before any of its moves is applied; the moves of a node
\* are applied in generator order, one at a time, each undone before the
\* next is applied.
C15_CallOrder == [][EvaluatorAtLeaves /\ GeneratorOncePerNode /\ MovesInGeneratorOrder]_vars

\* The second move of a node has just been applied, the first one undone:
\* the history is the node's own followed by the second generated move.
C15_Witness ==
    /\ Running
    /\ ops = <<"do_move">>
    /\ Len(frames) >= 3
    /\ frames[Len(frames) - 1].i = 2
    /\ frames[Len(frames) - 1].at = "child"
    /\ pos_history = do_move(frames[Len(frames) - 1].h0,
                             generate_moves(current_pos(frames[Len(frames) - 1].h0))[2])

\* Every node above the leaves of the depth-d tree below pos has a legal move
\* and every leaf evaluation lies strictly between Score::MIN+1 and Score::MAX.
RECURSIVE FullTree(_, _)
FullTree(pos, depth) ==
    IF depth = 0 THEN eval(pos) > ScoreMIN + 1 /\ eval(pos) < ScoreMAX
    ELSE LET ms == generate_moves(pos)
         IN  /\ ms # << >>
             /\ \A k \in DOMAIN ms : FullTree(current_pos(do_move(<<pos>>, ms[k])), depth - 1)

\* The value of the k-th move of pos in a search of the given depth.
MoveValue(pos, depth, k) ==
    0 - NegamaxValue(current_pos(do_move(<<pos>>, generate_moves(pos)[k])), depth - 1)

\* The moves of pos that attain its negamax value, by their place in
\* generator order.
BestMoves(pos, depth) ==
    {k \in DOMAIN generate_moves(pos) : MoveValue(pos, depth, k) = NegamaxValue(pos, depth)}

\* The line that takes at each node the first move in generator order that
\* attains the node's negamax value.
RECURSIVE FirstBestLine(_, _)
FirstBestLine(pos, depth) ==
    IF depth = 0 \/ BestMoves(pos, depth) = {} THEN << >>
    ELSE LET k == SetMin(BestMoves(pos, depth))
         IN  <<generate_moves(pos)[k]>>
                 \o FirstBestLine(current_pos(do_move(<<pos>>, generate_moves(pos)[k])), depth - 1)

\* C16: where every node above the leaves has a legal move and the leaf
\* evaluations lie strictly between Score::MIN+1 and Score::MAX, alpha_beta
\* returns move for move the principal variation of negamax: the line of
\* the first moves in generator order attaining each node's negamax value.
C16_SamePv ==
    \A m \in BOOLEAN :
        (pc = "idle" /\ Returned(<<"negamax", m>>) /\ Returned(<<"alpha_beta", m>>)
           /\ FullTree(CallRoot(<<"negamax", m>>), depth0))
        => /\ Result(<<"alpha_beta", m>>).pv = Result(<<"negamax", m>>).pv
           /\ Result(<<"negamax", m>>).pv = FirstBestLine(CallRoot(<<"negamax", m>>), depth0)

\* Both searches of the deepest tree are back with the same line where two
\* moves of the root tie for best, the first of them leading the line.
C16_Witness ==
    /\ pc = "idle"
    /\ ~mirrored
    /\ depth0 = MaxDepth
    /\ Returned(<<"negamax", FALSE>>)
    /\ Returned(<<"alpha_beta", FALSE>>)
    /\ FullTree(root, depth0)
    /\ Cardinality(BestMoves(root, depth0)) >= 2
    /\ Result(<<"alpha_beta", FALSE>>).pv = FirstBestLine(root, depth0)
    /\ Len(Result(<<"alpha_beta", FALSE>>).pv) = depth0

\* C17: where every node above the leaves has a legal move and the leaf
\* evaluations lie strictly between Score::MIN+1 and Score::MAX, the
\* principal variation returned by negamax and by alpha_beta has no
\* Move::NULL in it, and each of its moves is a legal move of the position
\* reached by the moves before it from the root.
C17_PvLegal ==
    \A c \in Calls :
        (pc = "idle" /\ Returned(c) /\ FullTree(CallRoot(c), depth0))
        => /\ Len(Result(c).pv) = depth0
           /\ \A i \in DOMAIN Result(c).pv : Result(c).pv[i] # NULL
           /\ Replay(CallRoot(c), Result(c).pv) # << >>

\* The deepest search of the mirrored root is back with a legal line led by
\* the root's second move, found after the rows below the root had been
\* filled from the subtree of the first move.
C17_Witness ==
    /\ pc = "idle"
    /\ mirrored
    /\ depth0 = MaxDepth
    /\ Returned(<<"alpha_beta", TRUE>>)
    /\ FullTree(Mirror(root), depth0)
    /\ BestMoves(Mirror(root), depth0) = {2}
    /\ Result(<<"alpha_beta", TRUE>>).pv[1] = generate_moves(Mirror(root))[2]
    /\ Replay(Mirror(root), Result(<<"alpha_beta", TRUE>>).pv) # << >>

====
